---- MODULE Spec2Model ----
(***************************************************************************)
(* A model of videoLauncher.py: the VideoLauncherApp controller, the       *)
(* settings file it loads and saves, the window it drives (geometry,       *)
(* borderless and toolkit fullscreen), the monitors attached at the time   *)
(* of a call to get_monitors(), the files named by the configured paths,   *)
(* and the media-player processes the launcher has spawned.                *)
(*                                                                         *)
(* The colours, fonts and texts of the widgets are not modelled; the        *)
(* settings they are drawn from are.  A <Configure> event, a monitor       *)
(* change, a file change and the exit of a player are steps of the         *)
(* environment.                                                            *)
(*                                                                         *)
(* Python values: a str path is a sequence of path tokens (separators are  *)
(* the tokens "/" and "\\", the empty str is <<>>); a geometry string      *)
(* "WxH+X+Y" is the tuple <<W, H, X, Y>>; None is the record None.         *)
(***************************************************************************)
EXTENDS Integers, Sequences, FiniteSets, Bags, TLC

VARIABLES
    running,            \* the launcher process is inside root.mainloop()
    settings,           \* self.settings
    settingsFile,       \* contents of settings.json, or NoFile
    fullscreen,         \* self.fullscreen
    overrideredirect,   \* self.overrideredirect
    mpv_path,           \* self.mpv_path
    windowed_geometry,  \* self.windowed_geometry, or NoAttr before it is set
    geometry,           \* root.geometry(): the window's size and position
    rootOverride,       \* root.overrideredirect(): the window is borderless
    rootFullscreen,     \* root.attributes("-fullscreen")
    monitors,           \* what get_monitors() returns now
    fs,                 \* normalised paths of the files that exist
    players,            \* bag of the running media players the launcher spawned
    edits,              \* number of dialog changes made so far
    lastWindowed,       \* geometry the window last had while windowed
    last                \* the last operation and what it reported

vars == <<running, settings, settingsFile, fullscreen, overrideredirect,
          mpv_path, windowed_geometry, geometry, rootOverride,
          rootFullscreen, monitors, fs, players, edits, lastWindowed,
          last>>

----------------------------------------------------------------------------
(* Bounds of the model *)

\* most media players alive at once
MaxPlayers == 2

\* most changes made through the settings dialogs (buttons, colours, font)
\* in one behaviour
MaxEdits == 1

----------------------------------------------------------------------------
(* Python values *)

None == [py |-> "None"]

NoFile == [file |-> "absent"]

NoAttr == [attr |-> "unset"]

Buttons == 0..8

Sep == {"/", "\\"}

\* os.path.normpath on Windows: "/" becomes "\\", repeated separators collapse
RECURSIVE normpath(_)
normpath(p) ==
    IF p = <<>> THEN <<>>
    ELSE LET h == IF Head(p) \in Sep THEN "\\" ELSE Head(p)
             t == normpath(Tail(p))
         IN  IF h = "\\" /\ t # <<>> /\ Head(t) = "\\" THEN t ELSE <<h>> \o t

\* str.strip("{}"): leading and trailing braces removed
RECURSIVE strip_braces(_)
strip_braces(s) ==
    IF s = <<>> THEN <<>>
    ELSE IF Head(s) \in {"{", "}"} THEN strip_braces(Tail(s))
    ELSE IF s[Len(s)] \in {"{", "}"} THEN strip_braces(SubSeq(s, 1, Len(s) - 1))
    ELSE s

\* os.path.exists / os.path.isfile: the path names a file that exists
exists(p) == p # <<>> /\ normpath(p) \in fs

----------------------------------------------------------------------------
(* What the dialogs, the window manager and the system can hand the code *)

MpvRaw == <<"C:", "/", "mpv", "/", "mpv.exe">>

VideoARaw == <<"C:", "/", "v", "/", "a.mp4">>

VideoBRaw == <<"C:", "/", "/", "v", "/", "b b.mp4">>

VideoBDropped == <<"{">> \o VideoBRaw \o <<"}">>

AllPaths == {normpath(MpvRaw), normpath(VideoARaw), normpath(VideoBRaw)}

Monitor1 == [x |-> 0, y |-> 0, width |-> 1920, height |-> 1080]

Monitor2 == [x |-> 1920, y |-> 0, width |-> 1920, height |-> 1080]

MonitorSmall == [x |-> 0, y |-> 0, width |-> 1280, height |-> 720]

MonitorLayouts == {<<Monitor1>>, <<Monitor1, Monitor2>>, <<MonitorSmall>>}

DefaultGeometry == <<600, 600, 100, 100>>

UserGeometries == {DefaultGeometry, <<800, 600, 2000, 50>>}

\* f"{monitor.width}x{monitor.height}+{monitor.x}+{monitor.y}"
monitor_geometry(monitor) ==
    <<monitor.width, monitor.height, monitor.x, monitor.y>>

winfo_x(g) == g[3]

winfo_y(g) == g[4]

----------------------------------------------------------------------------
(* Settings and the JSON file *)

default_title(i) == <<"Button", i + 1>>

\* the literal returned by load_settings when settings.json does not exist
DefaultSettings ==
    [background_color    |-> "#000000",
     button_border_color |-> "#FFFFFF",
     button_text_color   |-> "#FFFFFF",
     font_family         |-> "Arial",
     font_size           |-> 12,
     fullscreen          |-> FALSE,
     window_geometry     |-> DefaultGeometry,
     mpv_path            |-> <<>>,
     fullscreen_monitor  |-> None,
     buttons             |-> [i \in Buttons |->
                                [title |-> default_title(i), video |-> <<>>]]]

json_string(s) == [json |-> "string", v |-> s]

json_number(n) == [json |-> "number", v |-> n]

json_bool(b) == [json |-> IF b THEN "true" ELSE "false"]

json_null == [json |-> "null"]

json_monitor(m) ==
    IF m = None THEN json_null
    ELSE [json |-> "object",
          v |-> [x      |-> json_number(m.x),
                 y      |-> json_number(m.y),
                 width  |-> json_number(m.width),
                 height |-> json_number(m.height)]]

\* json.dump(self.settings): the document written to settings.json
json_dump(s) ==
    [json |-> "object",
     v |-> [background_color    |-> json_string(s.background_color),
            button_border_color |-> json_string(s.button_border_color),
            button_text_color   |-> json_string(s.button_text_color),
            font_family         |-> json_string(s.font_family),
            font_size           |-> json_number(s.font_size),
            fullscreen          |-> json_bool(s.fullscreen),
            window_geometry     |-> json_string(s.window_geometry),
            mpv_path            |-> json_string(s.mpv_path),
            fullscreen_monitor  |-> json_monitor(s.fullscreen_monitor),
            buttons             |->
                [json |-> "array",
                 v |-> [k \in 1..9 |->
                          [json |-> "object",
                           v |-> [title |-> json_string(s.buttons[k - 1].title),
                                  video |-> json_string(s.buttons[k - 1].video)]]]]]]

py_monitor(j) ==
    IF j.json = "null" THEN None
    ELSE [x      |-> j.v.x.v,
          y      |-> j.v.y.v,
          width  |-> j.v.width.v,
          height |-> j.v.height.v]

\* json.load(f): the dict read back from a document
json_load(j) ==
    [background_color    |-> j.v.background_color.v,
     button_border_color |-> j.v.button_border_color.v,
     button_text_color   |-> j.v.button_text_color.v,
     font_family         |-> j.v.font_family.v,
     font_size           |-> j.v.font_size.v,
     fullscreen          |-> (j.v.fullscreen.json = "true"),
     window_geometry     |-> j.v.window_geometry.v,
     mpv_path            |-> j.v.mpv_path.v,
     fullscreen_monitor  |-> py_monitor(j.v.fullscreen_monitor),
     buttons             |-> [i \in Buttons |->
                                [title |-> j.v.buttons.v[i + 1].v.title.v,
                                 video |-> j.v.buttons.v[i + 1].v.video.v]]]

load_settings ==
    IF settingsFile = NoFile THEN DefaultSettings ELSE json_load(settingsFile)

\* save_settings taken before the handler has updated the dict
save_settings_stale(s) == settingsFile' = json_dump(settings)

\* save_settings applied to the dict s
save_settings(s) == settingsFile' = json_dump(s)

----------------------------------------------------------------------------
(* What an operation reports: a message box, or a command handed to Popen *)

NoOutput == [kind |-> "none"]

showerror(title) == [kind |-> "showerror", title |-> title]

showwarning(title) == [kind |-> "showwarning", title |-> title]

showinfo(title) == [kind |-> "showinfo", title |-> title]

Popen(command) == [kind |-> "Popen", command |-> command]

Report(op, out) == last' = [op |-> op, out |-> out]

quoted(p) == <<"\"">> \o p \o <<"\"">>

\* f'{mpv_path_quoted} --fullscreen --loop-file=inf {video_path_quoted}'
mpv_command(mpv, video_path) ==
    <<quoted(normpath(mpv)), <<"--fullscreen">>, <<"--loop-file=inf">>,
      quoted(normpath(video_path))>>

taskkill_command == <<<<"taskkill">>, <<"/F">>, <<"/IM">>, <<"mpv.exe">>>>

\* the process the shell starts for an mpv command
spawned(mpv, video_path) ==
    [image |-> normpath(mpv)[Len(normpath(mpv))],
     video |-> normpath(video_path)]

\* what taskkill /F /IM mpv.exe leaves alive
after_taskkill(ps) ==
    [p \in {q \in BagToSet(ps) : q.image # "mpv.exe"} |-> ps[p]]

----------------------------------------------------------------------------
(* Construction: __init__ and init_ui *)

\* the saved monitor recognised by its position alone
monitor_matches_position(monitor, monitor_info) ==
    /\ monitor.x = monitor_info.x
    /\ monitor.y = monitor_info.y

monitor_matches(monitor, monitor_info) ==
    /\ monitor.x = monitor_info.x
    /\ monitor.y = monitor_info.y
    /\ monitor.width = monitor_info.width
    /\ monitor.height = monitor_info.height

\* positions in get_monitors() of the monitors equal to the saved one
saved_monitor_found(monitor_info) ==
    {k \in 1..Len(monitors) : monitor_matches(monitors[k], monitor_info)}

first_of(S) == CHOOSE k \in S : \A j \in S : k <= j

\* the window after apply_window_geometry and enter_fullscreen_on_startup
enter_fullscreen_on_startup(s) ==
    LET monitor_info == s.fullscreen_monitor
        found == IF monitor_info = None THEN {}
                 ELSE saved_monitor_found(monitor_info)
    IN  IF found # {}
        THEN [overrideredirect |-> TRUE, rootOverride |-> TRUE,
              rootFullscreen |-> FALSE,
              geometry |-> monitor_geometry(monitors[first_of(found)])]
        ELSE [overrideredirect |-> FALSE, rootOverride |-> FALSE,
              rootFullscreen |-> TRUE,
              geometry |-> s.window_geometry]

init_ui(s) ==
    IF s.fullscreen
    THEN enter_fullscreen_on_startup(s)
    ELSE [overrideredirect |-> FALSE, rootOverride |-> FALSE,
          rootFullscreen |-> FALSE, geometry |-> s.window_geometry]

\* the geometry the window last had while it was windowed, after this step
TrackWindowed ==
    lastWindowed' = IF running' /\ ~fullscreen' THEN geometry' ELSE lastWindowed

\* VideoLauncherApp(root) built from the loaded settings s
Construct(s) ==
    /\ settings' = s
    /\ fullscreen' = s.fullscreen
    /\ mpv_path' = s.mpv_path
    /\ windowed_geometry' = NoAttr
    /\ overrideredirect' = init_ui(s).overrideredirect
    /\ rootOverride' = init_ui(s).rootOverride
    /\ rootFullscreen' = init_ui(s).rootFullscreen
    /\ geometry' = init_ui(s).geometry

Init ==
    /\ running = TRUE
    /\ settingsFile = NoFile
    /\ settings = DefaultSettings
    /\ fullscreen = FALSE
    /\ mpv_path = <<>>
    /\ windowed_geometry = NoAttr
    /\ overrideredirect = FALSE
    /\ rootOverride = FALSE
    /\ rootFullscreen = FALSE
    /\ geometry = DefaultGeometry
    /\ monitors = <<Monitor1>>
    /\ fs = AllPaths
    /\ players = EmptyBag
    /\ edits = 0
    /\ lastWindowed = DefaultGeometry
    /\ last = [op |-> "main", out |-> NoOutput]

\* main(): the launcher is started (again) and builds its window
main ==
    /\ ~running
    /\ running' = TRUE
    /\ Construct(load_settings)
    /\ Report("main", NoOutput)
    /\ UNCHANGED <<settingsFile, monitors, fs, players, edits>>
    /\ TrackWindowed

quit_program ==
    /\ running
    /\ running' = FALSE
    /\ Report("quit_program", NoOutput)
    /\ UNCHANGED <<settings, settingsFile, fullscreen, overrideredirect,
                   mpv_path, windowed_geometry, geometry, rootOverride,
                   rootFullscreen, monitors, fs, players, edits>>
    /\ TrackWindowed

\* reset_settings: on "yes" the file is removed and the program re-executed
reset_settings(yes) ==
    /\ running
    /\ IF yes
       THEN /\ settingsFile' = NoFile
            /\ Construct(DefaultSettings)
       ELSE UNCHANGED <<settings, settingsFile, fullscreen, overrideredirect,
                        mpv_path, windowed_geometry, geometry, rootOverride,
                        rootFullscreen>>
    /\ Report("reset_settings", NoOutput)
    /\ UNCHANGED <<running, monitors, fs, players, edits>>
    /\ TrackWindowed

----------------------------------------------------------------------------
(* Settings dialogs *)

WindowVars == <<fullscreen, overrideredirect, windowed_geometry, geometry,
                rootOverride, rootFullscreen>>

WorldVars == <<running, monitors, fs, players>>

\* set_mpv_path: chosen is what the file dialog returned ("" on cancel)
set_mpv_path(chosen) ==
    /\ running
    /\ IF chosen # <<>> /\ exists(chosen)
       THEN /\ mpv_path' = normpath(chosen)
            /\ settings' = [settings EXCEPT !.mpv_path = normpath(chosen)]
            /\ save_settings(settings')
            /\ Report("set_mpv_path", showinfo("mpv Path Set"))
       ELSE /\ UNCHANGED <<mpv_path, settings, settingsFile>>
            /\ Report("set_mpv_path", showerror("Error"))
    /\ UNCHANGED <<WindowVars, WorldVars, edits>>
    /\ TrackWindowed

\* the file dialog shown for the ninth button too
asks_video_every_button(button_index) == button_index \in Buttons

\* line 283: the file dialog is shown for every button but the ninth
asks_video(button_index) == button_index # 8

\* update_button_settings: title and video_path are what the two dialogs
\* returned (<<>> on cancel); the second dialog is shown only if asks_video
update_button_settings(button_index, title, video_path) ==
    /\ running
    /\ edits < MaxEdits
    /\ asks_video(button_index) \/ video_path = <<>>
    /\ LET titled == IF title # <<>>
                     THEN [settings EXCEPT !.buttons[button_index].title = title]
                     ELSE settings
           assigned == IF asks_video(button_index) /\ video_path # <<>>
                       THEN [titled EXCEPT !.buttons[button_index].video =
                                               normpath(video_path)]
                       ELSE titled
       IN  /\ settings' = assigned
           /\ save_settings(assigned)
           /\ edits' = IF assigned # settings THEN edits + 1 ELSE edits
    /\ Report("update_button_settings", NoOutput)
    /\ UNCHANGED <<mpv_path, WindowVars, WorldVars>>
    /\ TrackWindowed

\* drag_and_drop: data is event.data; only buttons 0..7 are drop targets
drag_and_drop(data, button_index) ==
    /\ running
    /\ edits < MaxEdits
    /\ button_index # 8
    /\ LET video_path == strip_braces(data)
       IN  IF exists(video_path)
           THEN /\ settings' = [settings EXCEPT
                        !.buttons[button_index].video = normpath(video_path)]
                /\ save_settings(settings')
                /\ edits' = IF settings' # settings THEN edits + 1 ELSE edits
                /\ Report("drag_and_drop", showinfo("Success"))
           ELSE /\ UNCHANGED <<settings, settingsFile, edits>>
                /\ Report("drag_and_drop", showerror("Error"))
    /\ UNCHANGED <<mpv_path, WindowVars, WorldVars>>
    /\ TrackWindowed

\* change_background_color: color is None when the chooser is cancelled
change_background_color(color) ==
    /\ running
    /\ edits < MaxEdits
    /\ IF color # None
       THEN /\ settings' = [settings EXCEPT !.background_color = color.v]
            /\ save_settings(settings')
            /\ edits' = edits + 1
       ELSE UNCHANGED <<settings, settingsFile, edits>>
    /\ Report("change_background_color", NoOutput)
    /\ UNCHANGED <<mpv_path, WindowVars, WorldVars>>
    /\ TrackWindowed

change_button_style(border_color, text_color) ==
    /\ running
    /\ edits < MaxEdits
    /\ IF border_color # None /\ text_color # None
       THEN /\ settings' = [settings EXCEPT
                               !.button_border_color = border_color.v,
                               !.button_text_color = text_color.v]
            /\ save_settings(settings')
            /\ edits' = edits + 1
       ELSE UNCHANGED <<settings, settingsFile, edits>>
    /\ Report("change_button_style", NoOutput)
    /\ UNCHANGED <<mpv_path, WindowVars, WorldVars>>
    /\ TrackWindowed

\* apply_font in select_font: selected is the listbox selection (None if empty)
apply_font(selected, selected_size) ==
    /\ running
    /\ edits < MaxEdits
    /\ IF selected # None
       THEN /\ settings' = [settings EXCEPT !.font_family = selected.v,
                                            !.font_size = selected_size]
            /\ save_settings(settings')
            /\ edits' = edits + 1
            /\ Report("apply_font", NoOutput)
       ELSE /\ UNCHANGED <<settings, settingsFile, edits>>
            /\ Report("apply_font", showwarning("No Font Selected"))
    /\ UNCHANGED <<mpv_path, WindowVars, WorldVars>>
    /\ TrackWindowed

Chosen(x) == [py |-> "str", v |-> x]

----------------------------------------------------------------------------
(* The button grid *)

\* every button of the grid bound to play_video
button_command_all_play(i) == "play_video"

\* line 148: the command bound to button i when the grid is built
button_command(i) == IF i = 8 THEN "close_mpv" ELSE "play_video"

\* line 381: the configured player cannot be used
mpv_not_found == mpv_path = <<>> \/ ~exists(mpv_path)

\* the video checked for being assigned, not for existing
video_assigned(video_path) == video_path # <<>>

\* line 388: the video can be handed to the player
video_playable(video_path) == video_path # <<>> /\ exists(video_path)

SettingsVars == <<settings, settingsFile, mpv_path, edits>>

\* play_video(self.settings["buttons"][i]["video"]), read at the click
play_video(i) ==
    LET video_path == settings.buttons[i].video
    IN  /\ IF mpv_not_found
           THEN /\ Report("play_video", showerror("mpv Not Found"))
                /\ UNCHANGED players
           ELSE IF video_playable(video_path)
           THEN /\ BagCardinality(players) < MaxPlayers
                /\ players' = players (+) SetToBag({spawned(mpv_path, video_path)})
                /\ Report("play_video", Popen(mpv_command(mpv_path, video_path)))
           ELSE /\ Report("play_video", showwarning("Video Not Found"))
                /\ UNCHANGED players

close_mpv ==
    /\ players' = after_taskkill(players)
    /\ Report("close_mpv", Popen(taskkill_command))

\* a click on button i of the grid
click(i) ==
    /\ running
    /\ IF button_command(i) = "close_mpv" THEN close_mpv ELSE play_video(i)
    /\ UNCHANGED <<SettingsVars, WindowVars, running, monitors, fs>>
    /\ TrackWindowed

----------------------------------------------------------------------------
(* The window *)

\* line 132: a <Configure> event is allowed to store the geometry
may_save_geometry == ~fullscreen /\ ~overrideredirect

\* save_window_geometry on a <Configure> event: g is the geometry the window
\* has when the event is handled (a windowed window may have been moved or
\* resized by the user, a fullscreen one has not)
save_window_geometry(g) ==
    /\ running
    /\ IF fullscreen THEN g = geometry ELSE g \in UserGeometries \cup {geometry}
    /\ geometry' = g
    /\ IF may_save_geometry
       THEN /\ settings' = [settings EXCEPT !.window_geometry = g]
            /\ save_settings(settings')
       ELSE UNCHANGED <<settings, settingsFile>>
    /\ Report("save_window_geometry", NoOutput)
    /\ UNCHANGED <<fullscreen, overrideredirect, windowed_geometry,
                   rootOverride, rootFullscreen, mpv_path, edits, WorldVars>>
    /\ TrackWindowed

\* lines 489-494: the window's top-left corner lies on the monitor
window_on(monitor) ==
    /\ winfo_x(geometry) >= monitor.x
    /\ winfo_x(geometry) < monitor.x + monitor.width
    /\ winfo_y(geometry) >= monitor.y
    /\ winfo_y(geometry) < monitor.y + monitor.height

toggle_fullscreen ==
    /\ running
    /\ fullscreen' = ~fullscreen
    /\ IF fullscreen'
       THEN LET on == {k \in 1..Len(monitors) : window_on(monitors[k])}
            IN  IF on # {}
                THEN LET monitor == monitors[first_of(on)]
                     IN  /\ rootOverride' = TRUE
                         /\ overrideredirect' = TRUE
                         /\ windowed_geometry' = geometry
                         /\ geometry' = monitor_geometry(monitor)
                         /\ settings' = [settings EXCEPT
                                !.fullscreen = TRUE,
                                !.fullscreen_monitor =
                                    [x |-> monitor.x, y |-> monitor.y,
                                     width |-> monitor.width,
                                     height |-> monitor.height]]
                         /\ UNCHANGED rootFullscreen
                ELSE /\ rootFullscreen' = TRUE
                     /\ overrideredirect' = FALSE
                     /\ settings' = [settings EXCEPT
                                !.fullscreen = TRUE,
                                !.fullscreen_monitor = None]
                     /\ UNCHANGED <<rootOverride, windowed_geometry, geometry>>
       ELSE /\ IF overrideredirect
               THEN /\ rootOverride' = FALSE
                    /\ overrideredirect' = FALSE
                    /\ geometry' = IF windowed_geometry # NoAttr
                                   THEN windowed_geometry ELSE geometry
                    /\ UNCHANGED rootFullscreen
               ELSE /\ rootFullscreen' = FALSE
                    /\ UNCHANGED <<rootOverride, overrideredirect, geometry>>
            /\ settings' = [settings EXCEPT !.fullscreen = FALSE,
                                            !.fullscreen_monitor = None]
            /\ UNCHANGED windowed_geometry
    /\ save_settings(settings')
    /\ Report("toggle_fullscreen", NoOutput)
    /\ UNCHANGED <<mpv_path, edits, WorldVars>>
    /\ TrackWindowed

----------------------------------------------------------------------------
(* The world outside the launcher *)

\* a monitor is attached, detached or replaced
MonitorsChange(layout) ==
    /\ layout # monitors
    /\ monitors' = layout
    /\ Report("MonitorsChange", NoOutput)
    /\ UNCHANGED <<running, settings, settingsFile, fullscreen,
                   overrideredirect, mpv_path, windowed_geometry, geometry,
                   rootOverride, rootFullscreen, fs, players, edits,
                   lastWindowed>>

\* a file the settings may name is deleted, or the missing one is put back
\* (one file is missing at a time)
FileChange(p) ==
    /\ p \in fs => fs = AllPaths
    /\ fs' = IF p \in fs THEN fs \ {p} ELSE fs \cup {p}
    /\ UNCHANGED <<running, settings, settingsFile, fullscreen,
                   overrideredirect, mpv_path, windowed_geometry, geometry,
                   rootOverride, rootFullscreen, monitors, players, edits,
                   lastWindowed, last>>

\* the viewer closes the media player p
PlayerExits(p) ==
    /\ BagIn(p, players)
    /\ players' = players (-) SetToBag({p})
    /\ UNCHANGED <<running, settings, settingsFile, fullscreen,
                   overrideredirect, mpv_path, windowed_geometry, geometry,
                   rootOverride, rootFullscreen, monitors, fs, edits,
                   lastWindowed, last>>

----------------------------------------------------------------------------
(* Specifications *)

Titles == {<<>>, <<"Lobby">>}

Colors == {None, Chosen("#112233")}

Fonts == {None, Chosen("Courier")}

Click == \E i \in Buttons : click(i)

SetMpvPath == \E chosen \in {<<>>, MpvRaw} : set_mpv_path(chosen)

UpdateButtonSettings ==
    \E i \in Buttons, title \in Titles, video_path \in {<<>>, VideoARaw, VideoBRaw} :
        update_button_settings(i, title, video_path)

\* the dialogs of a video button with the title prompt cancelled
ConfigureVideoButton ==
    \E i \in 0..7, video_path \in {<<>>, VideoARaw, VideoBRaw} :
        update_button_settings(i, <<>>, video_path)

\* the dialogs of the ninth button
ConfigureNinthButton ==
    \E title \in Titles, video_path \in {<<>>, VideoARaw, VideoBRaw} :
        update_button_settings(8, title, video_path)

DragAndDrop ==
    \E i \in Buttons, data \in {VideoARaw, VideoBDropped} : drag_and_drop(data, i)

ChangeBackgroundColor == \E color \in Colors : change_background_color(color)

ChangeButtonStyle ==
    \E border_color \in Colors, text_color \in Colors :
        change_button_style(border_color, text_color)

ApplyFont == \E selected \in Fonts : apply_font(selected, 20)

Configure == \E g \in UserGeometries \cup {geometry} : save_window_geometry(g)

ResetSettings == \E yes \in BOOLEAN : reset_settings(yes)

Monitors == \E layout \in MonitorLayouts : MonitorsChange(layout)

Files == \E p \in AllPaths : FileChange(p)

Exits == \E p \in BagToSet(players) : PlayerExits(p)

Next ==
    \/ main
    \/ quit_program
    \/ ResetSettings
    \/ SetMpvPath
    \/ UpdateButtonSettings
    \/ DragAndDrop
    \/ ChangeBackgroundColor
    \/ ChangeButtonStyle
    \/ ApplyFont
    \/ Click
    \/ Configure
    \/ toggle_fullscreen
    \/ Monitors
    \/ Files
    \/ Exits

Spec == Init /\ [][Next]_vars

\* the button grid and the media player; play_video and close_mpv read no
\* title, so only the ninth button, whose dialog sets nothing else, is retitled
NextPlay ==
    \/ main
    \/ quit_program
    \/ SetMpvPath
    \/ ConfigureVideoButton
    \/ ConfigureNinthButton
    \/ DragAndDrop
    \/ Click
    \/ Files
    \/ Exits

SpecPlay == Init /\ [][NextPlay]_vars

\* every operation that writes the settings, and the restarts that read them
NextSettings ==
    \/ main
    \/ quit_program
    \/ ResetSettings
    \/ SetMpvPath
    \/ UpdateButtonSettings
    \/ DragAndDrop
    \/ ChangeBackgroundColor
    \/ ChangeButtonStyle
    \/ ApplyFont
    \/ Configure
    \/ toggle_fullscreen

SpecSettings == Init /\ [][NextSettings]_vars

\* fullscreen toggles, window events, monitor changes and restarts
NextWindow ==
    \/ main
    \/ quit_program
    \/ Configure
    \/ toggle_fullscreen
    \/ Monitors

SpecWindow == Init /\ [][NextWindow]_vars

----------------------------------------------------------------------------
(* Claims *)

Videos == {VideoARaw, VideoBRaw}

\* the configured player and the video assigned to button i can both be used
Playable(i) ==
    /\ settings.mpv_path # <<>>
    /\ settings.buttons[i].video # <<>>
    /\ exists(settings.mpv_path)
    /\ exists(settings.buttons[i].video)

\* the command that plays button i's video fullscreen and looping
IsLaunchOf(out, i) ==
    /\ out.kind = "Popen"
    /\ Len(out.command) = 4
    /\ out.command[1] = quoted(settings.mpv_path)
    /\ out.command[2] = <<"--fullscreen">>
    /\ out.command[3] = <<"--loop-file=inf">>
    /\ out.command[4] = quoted(settings.buttons[i].video)

\* C1: at most one media player spawned by the launcher is running at a
\* time; a click on a video button while a video plays ends the earlier
\* player instead of leaving it beside the new one.
C1_NoOverlap == BagCardinality(players) <= 1

\* C2: when quit_program has completed, no media player the launcher
\* spawned is still running.
C2_QuitTerminates == last.op = "quit_program" => players = EmptyBag

\* C3 as stated: every button 0..8 can be given a video file through its
\* configuration dialog, and a click on it with a usable player and an
\* existing assigned video launches the player on that video, fullscreen
\* and looping.
C3_EveryButton ==
    \A i \in Buttons :
        /\ running /\ edits < MaxEdits =>
             \A v \in Videos :
                 ENABLED (/\ update_button_settings(i, <<>>, v)
                          /\ settings'.buttons[i].video = normpath(v))
        /\ running /\ Playable(i) /\ BagCardinality(players) < MaxPlayers =>
             ENABLED (/\ click(i)
                      /\ IsLaunchOf(last'.out, i)
                      /\ BagCardinality(players') = BagCardinality(players) + 1)

\* C3 as amended: the same for the eight buttons 0..7; the ninth button
\* (index 8) never has a video: its dialog asks for a title only.
C3_VideoButtons ==
    /\ \A i \in 0..7 :
        /\ running /\ edits < MaxEdits =>
             \A v \in Videos :
                 ENABLED (/\ update_button_settings(i, <<>>, v)
                          /\ settings'.buttons[i].video = normpath(v))
        /\ running /\ Playable(i) /\ BagCardinality(players) < MaxPlayers =>
             ENABLED (/\ click(i)
                      /\ IsLaunchOf(last'.out, i)
                      /\ BagCardinality(players') = BagCardinality(players) + 1)
    /\ settings.buttons[8].video = <<>>
    /\ running /\ edits < MaxEdits =>
         \A v \in Videos :
             ~ ENABLED (/\ update_button_settings(8, <<"Lobby">>, v)
                        /\ settings'.buttons[8].video # <<>>)

\* a video button holds an assigned video and a click has launched it
C3_Witness ==
    /\ last.op = "play_video"
    /\ \E i \in 0..7 :
        /\ settings.buttons[i].video = normpath(VideoARaw)
        /\ IsLaunchOf(last.out, i)
    /\ players # EmptyBag

\* C4: between operations the settings file holds the in-memory settings:
\* what load_settings would return on a restart now is self.settings.
C4_Persisted == load_settings = settings

\* a restart has reloaded a changed button, mode and geometry from the file
C4_Witness ==
    /\ last.op = "main"
    /\ settingsFile # NoFile
    /\ \E i \in 0..7 : settings.buttons[i].video # <<>>
    /\ settings.fullscreen
    /\ settings.window_geometry # DefaultGeometry
    /\ settings.mpv_path # <<>>

C6_NinthButtonCloses ==
    [][click(8) => /\ last'.op = "close_mpv"
                   /\ last'.out = Popen(taskkill_command)
                   /\ BagCardinality(players') <= BagCardinality(players)]_vars

\* button 8 was reconfigured and then clicked
C6_Witness ==
    /\ last.op = "close_mpv"
    /\ settings.buttons[8].title = <<"Lobby">>

\* C7: a click on a video button i in 0..7 launches the player, fullscreen
\* and looping on the video stored for i at the time of the click, exactly
\* when the configured mpv path is non-empty and exists and that video path
\* is non-empty and exists; otherwise nothing is launched and an error or a
\* warning is shown.
C7_ClickPlays ==
    [][\A i \in 0..7 :
         click(i) =>
            IF Playable(i)
            THEN /\ IsLaunchOf(last'.out, i)
                 /\ players' = players (+) SetToBag(
                        {[image |-> "mpv.exe", video |-> settings.buttons[i].video]})
            ELSE /\ last'.out.kind \in {"showerror", "showwarning"}
                 /\ players' = players]_vars

\* a click has launched a video that was dropped on the button after the
\* grid was built
C7_Witness ==
    /\ last.op = "play_video"
    /\ last.out.kind = "Popen"
    /\ last.out.command[4] = quoted(normpath(VideoBRaw))
    /\ \E i \in 0..7 : settings.buttons[i].video = normpath(VideoBRaw)

\* C8: started with fullscreen saved as true, the window covers the saved
\* monitor borderless exactly when an attached monitor equals the saved one
\* in x, y, width and height; otherwise it is in the toolkit's fullscreen
\* with overrideredirect off.
C8_StartupPlacement ==
    last.op = "main" /\ settings.fullscreen =>
        LET saved == settings.fullscreen_monitor
            attached == /\ saved # None
                        /\ \E k \in 1..Len(monitors) :
                              /\ monitors[k].x = saved.x
                              /\ monitors[k].y = saved.y
                              /\ monitors[k].width = saved.width
                              /\ monitors[k].height = saved.height
            covering == /\ rootOverride
                        /\ overrideredirect
                        /\ saved # None
                        /\ geometry = <<saved.width, saved.height, saved.x, saved.y>>
        IN  /\ attached <=> covering
            /\ ~attached => rootFullscreen /\ ~rootOverride /\ ~overrideredirect

\* a restart has put the window borderless on the saved second monitor
C8_Witness ==
    /\ last.op = "main"
    /\ settings.fullscreen
    /\ settings.fullscreen_monitor = Monitor2
    /\ rootOverride
    /\ geometry = <<1920, 1080, 1920, 0>>

====
